---- MODULE Spec2Model ----
(***************************************************************************)
(* Universal Accessibility Companion: the session controller (App), the    *)
(* analysis client (analyzeContent), the result view (OutputDisplay, with  *)
(* renderContent) and the speech facilities they drive, as a state         *)
(* machine.  React state is one variable per useState slot; an async       *)
(* handler suspended at an await keeps the values of the render it was     *)
(* created in (its closure), which is what `inFlight` records.             *)
(***************************************************************************)
EXTENDS Integers, Sequences, FiniteSets, TLC

\* ------------------------------------------------------------------ bounds
\* submissions dispatched in one session
MaxSubmits == 2
\* the same, for the specification of the properties of a single handler
MaxSubmitsSingle == 1
\* SpeechRecognition objects created in one session
MaxRecognitions == 2
\* utterances handed to speechSynthesis and not yet done with
MaxUtterances == 2
\* characters of the input text that dictation may reach
MaxTextLen == 3
\* characters of a response text given to renderContent
MaxRenderLen == 5

\* ------------------------------------------------------- values of the code
null == "null"
undefined == "undefined"

AppMode == {"DESCRIBE", "SIMPLIFY", "GUIDE"}

\* texts are sequences of characters; the textarea offers these
EmptyText == << >>
TypedTexts == {EmptyText, <<"a">>}

\* the mode cards the user clicks
ClickedModes == {"DESCRIBE", "SIMPLIFY"}

ImageData == "data:image/png;base64,AAAA"
ImageMime == "image/png"

ErrValidation == "Please provide either text or an image to analyze."
ErrNotImage == "Please select a valid image file."
ErrNoKey == "API Key not found in environment variables"
ErrNoResponse == "No response generated from the model."
ErrUnexpected == "An unexpected error occurred while processing your request."
ErrVoiceUnsupported ==
    "Voice input is not supported in this browser. Please use Chrome, Edge, or Safari."
ErrMicDenied ==
    "Microphone access was denied. Please allow microphone access to use voice input."
ErrVoiceOther == "Voice input error: network"

\* JavaScript truthiness of a string-or-null-or-undefined value
Truthy(v) == v \notin {"", null, undefined}

VARIABLES
    phase,            \* "init" before the mount effects ran, "mounted", "crashed",
                      \* "unmounted"
    selectedMode, inputText, selectedImage, imageMimeType,
    isAnalyzing, responseContent, error,
    history, historyIsArray, showHistory,
    storage,          \* the localStorage record 'accessibility_app_history'
    inFlight,         \* closures of the handleSubmit calls suspended at the await
    reading,          \* whether a FileReader started by handleFileChange is reading
    now,              \* Date.now() at the last append, in steps from the first (0 before it)
    rejected,         \* whether a handleSubmit continuation ended in an uncaught exception
    cleared,          \* the items that confirmed clears have removed from History
    submits,          \* analyzeContent calls dispatched so far
    last,             \* the handler that ran last
    isListening,
    recognitionRef,   \* recognitionRef.current: 0 for null, or an index of `recognitions`
    recognitions,     \* the SpeechRecognition objects created, each with its state
    isSpeaking,       \* OutputDisplay's speaking flag
    utterances,       \* the speechSynthesis queue: "pending" or "speaking" utterances
    cancelled,        \* utterances removed by cancel() whose error event is still to come
    call,             \* a call of analyzeContent on its own: request, credential, backend outcome
    settled,          \* what that call's promise settled with
    rendering         \* a call of renderContent on its own: text, elements returned

speechVars == << isListening, recognitionRef, recognitions, isSpeaking,
                 utterances, cancelled >>

clientVars == << call, settled, rendering >>

vars == << phase, selectedMode, inputText, selectedImage, imageMimeType,
           isAnalyzing, responseContent, error, history, historyIsArray,
           showHistory, storage, inFlight, reading, now,
           rejected, cleared, submits, last, speechVars, clientVars >>

\* ------------------------------------------------------------ localStorage
\* The record is absent, or holds a text: one JSON.parse rejects ("garbage"),
\* one that parses to a value that is no array ("object", such as {}), or the
\* JSON of an array of HistoryItems (JSON.stringify of plain strings, numbers
\* and booleans parses back to the same items).
NoRecord == [kind |-> "none", items |-> << >>]
Garbage == [kind |-> "garbage", items |-> << >>]
NotArray == [kind |-> "object", items |-> << >>]
Stored(items) == [kind |-> "array", items |-> items]

OldItem == [id |-> -1, timestamp |-> -1, mode |-> "SIMPLIFY", inputText |-> <<"a">>,
            response |-> "old", hasImage |-> TRUE]

InitialRecords == {NoRecord, Garbage, NotArray, Stored(<<OldItem>>)}

\* ------------------------------------------------- services/geminiService.ts
\* What the backend does with one call: generateContent throws an error with
\* some message (possibly empty, possibly none), or returns a response whose
\* text is absent, empty or a markdown text.
BackendOutcomes ==
    {[kind |-> "throws", message |-> m, text |-> undefined] :
        m \in {"fetch failed", "", undefined}}
    \cup {[kind |-> "returns", message |-> undefined, text |-> t] :
        t \in {undefined, "", "md"}}

ApiKeys == {undefined, "", "key"}

\* the calls of a session: the credential is present and the backend answers
\* with a text or fails
SessionCalls ==
    {[apiKey |-> "key", outcome |-> o] :
        o \in {x \in BackendOutcomes : x.message = "fetch failed" \/ x.text = "md"}}

Return(v) == [kind |-> "return", value |-> v]
Throw(m) == [kind |-> "throw", value |-> m]

getClient(apiKey) ==
    IF ~Truthy(apiKey) THEN Throw(ErrNoKey) ELSE Return("client")

\* the image part is sent when both the data and the MIME type are present
HasInlineData(request) ==
    Truthy(request.imageBase64) /\ Truthy(request.imageMimeType)

\* the try block of analyzeContent: its return value, or the error it throws
TryAnalyze(request, apiKey, outcome) ==
    IF getClient(apiKey).kind = "throw" THEN getClient(apiKey)
    ELSE IF outcome.kind = "throws" THEN Throw(outcome.message)
    ELSE IF ~Truthy(outcome.text) THEN Throw(ErrNoResponse)
    ELSE Return([markdown |-> outcome.text, error |-> undefined])

\* a catch block that passes the message on as it is
CatchAnalyzeNoDefault(message) ==
    Return([markdown |-> "", error |-> message])

CatchAnalyze(message) ==
    Return([markdown |-> "",
            error |-> IF Truthy(message) THEN message ELSE ErrUnexpected])

analyzeContent(request, apiKey, outcome) ==
    LET body == TryAnalyze(request, apiKey, outcome)
    IN  IF body.kind = "throw" THEN CatchAnalyze(body.value) ELSE body

\* ------------------------------------------------------------------ App
\* the values a handleSubmit call keeps across its await: the state of the
\* render it was created in
Closure ==
    [inputText |-> inputText, selectedImage |-> selectedImage,
     imageMimeType |-> imageMimeType, selectedMode |-> selectedMode,
     history |-> history, historyIsArray |-> historyIsArray]

\* `x || undefined`
OrUndefined(x) == IF Truthy(x) THEN x ELSE undefined

MakeRequest(c) ==
    [text |-> c.inputText, imageBase64 |-> OrUndefined(c.selectedImage),
     imageMimeType |-> OrUndefined(c.imageMimeType), mode |-> c.selectedMode]

\* an addToHistory that reads the mode and the image of the current state
NewItemOfCurrentState(c, text, response, clock) ==
    [id |-> clock, timestamp |-> clock, mode |-> selectedMode,
     inputText |-> text, response |-> response,
     hasImage |-> Truthy(selectedImage)]

\* newItem in addToHistory, with the state of the render the call was made in
NewItem(c, text, response, clock) ==
    [id |-> clock, timestamp |-> clock, mode |-> c.selectedMode,
     inputText |-> text, response |-> response,
     hasImage |-> Truthy(c.selectedImage)]

\* [newItem, ...history] with the history of the render the call was made in
UpdatedHistory(c, text, response, clock) ==
    <<NewItem(c, text, response, clock)>> \o c.history

Items(seq) == {seq[i] : i \in 1..Len(seq)}

Remove(seq, i) == SubSeq(seq, 1, i - 1) \o SubSeq(seq, i + 1, Len(seq))

Mounted == phase = "mounted"

NoCall == [request |-> "none", apiKey |-> "none", outcome |-> "none"]
NotSettled == [kind |-> "pending", value |-> "none"]

InitSession ==
    /\ phase = "init"
    /\ selectedMode = "DESCRIBE"
    /\ inputText = EmptyText
    /\ selectedImage = null
    /\ imageMimeType = null
    /\ isAnalyzing = FALSE
    /\ responseContent = ""
    /\ error = null
    /\ history = << >>
    /\ historyIsArray = TRUE
    /\ showHistory = FALSE
    /\ storage \in InitialRecords
    /\ inFlight = << >>
    /\ reading = FALSE
    /\ now = 0
    /\ rejected = FALSE
    /\ cleared = {}
    /\ submits = 0
    /\ last = "init"
    /\ isListening = FALSE
    /\ recognitionRef = 0
    /\ recognitions = << >>
    /\ isSpeaking = FALSE
    /\ utterances = << >>
    /\ cancelled = 0

NoRendering == [text |-> << >>, done |-> FALSE, elements |-> << >>]

Init ==
    /\ InitSession
    /\ call = NoCall
    /\ settled = NotSettled
    /\ rendering = NoRendering

\* what JSON.parse(savedHistory) gives the mount effect: [threw, isArray, items]
ParseSaved(record) ==
    CASE record.kind = "garbage" -> [threw |-> TRUE, isArray |-> TRUE, items |-> << >>]
      [] record.kind = "object" -> [threw |-> FALSE, isArray |-> FALSE, items |-> << >>]
      [] OTHER -> [threw |-> FALSE, isArray |-> TRUE, items |-> record.items]

\* useEffect(..., []) on mount: load history from localStorage
LoadHistory ==
    /\ phase = "init"
    /\ phase' = "mounted"
    /\ IF storage.kind = "none" \/ ParseSaved(storage).threw
       THEN UNCHANGED << history, historyIsArray >>
       ELSE /\ history' = ParseSaved(storage).items
            /\ historyIsArray' = ParseSaved(storage).isArray
    /\ last' = "loadHistory"
    /\ UNCHANGED << selectedMode, inputText, selectedImage, imageMimeType,
                    isAnalyzing, responseContent, error, showHistory, storage,
                    inFlight, reading, now, rejected, cleared, submits >>
    /\ UNCHANGED << speechVars, clientVars >>

\* a render of the history drawer evaluates history.map(...), which throws
\* when history is not an array; no error boundary catches it
RenderThrows(show, isArray) == show /\ ~isArray

\* <textarea onChange={(e) => setInputText(e.target.value)}>
SetInputText(t) ==
    /\ Mounted
    /\ t # inputText
    /\ inputText' = t
    /\ last' = "other"
    /\ UNCHANGED << phase, selectedMode, selectedImage, imageMimeType, isAnalyzing,
                    responseContent, error, history, historyIsArray, showHistory,
                    storage, inFlight, reading, now, rejected, cleared, submits >>
    /\ UNCHANGED << speechVars, clientVars >>

\* handleFileChange: no file chosen, a file that is no image, or an image,
\* whose bytes a FileReader then reads asynchronously
handleFileChange(fileType) ==
    /\ Mounted
    /\ CASE fileType = "none" -> UNCHANGED << error, reading >>
         [] fileType = "text/plain" -> error' = ErrNotImage /\ UNCHANGED reading
         [] OTHER -> ~reading /\ error' = null /\ reading' = TRUE
    /\ last' = "other"
    /\ UNCHANGED << phase, selectedMode, inputText, selectedImage, imageMimeType,
                    isAnalyzing, responseContent, history, historyIsArray,
                    showHistory, storage, inFlight, now, rejected, cleared, submits >>
    /\ UNCHANGED << speechVars, clientVars >>

\* reader.onloadend: the result is the data URL, or null when the read failed
ReaderLoadEnd(ok) ==
    /\ Mounted
    /\ reading
    /\ reading' = FALSE
    /\ selectedImage' = IF ok THEN ImageData ELSE null
    /\ imageMimeType' = ImageMime
    /\ last' = "other"
    /\ UNCHANGED << phase, selectedMode, inputText, isAnalyzing, responseContent,
                    error, history, historyIsArray, showHistory, storage,
                    inFlight, now, rejected, cleared, submits >>
    /\ UNCHANGED << speechVars, clientVars >>

\* the remove-image button, rendered only while an image is selected
handleClearImage ==
    /\ Mounted
    /\ Truthy(selectedImage)
    /\ selectedImage' = null
    /\ imageMimeType' = null
    /\ last' = "other"
    /\ UNCHANGED << phase, selectedMode, inputText, isAnalyzing, responseContent,
                    error, history, historyIsArray, showHistory, storage,
                    inFlight, reading, now, rejected, cleared, submits >>
    /\ UNCHANGED << speechVars, clientVars >>

\* window.speechSynthesis.cancel(): the queue is emptied; each utterance removed
\* gets its error event later
CancelSpeech ==
    /\ utterances' = << >>
    /\ cancelled' = cancelled + Len(utterances)

\* OutputDisplay's effect on [isLoading]: when isLoading turns true, speech is
\* cancelled and the speaking flag reset
LoadingEffect ==
    IF ~isAnalyzing
    THEN CancelSpeech /\ isSpeaking' = FALSE
    ELSE UNCHANGED << isSpeaking, utterances, cancelled >>

\* a handleSubmit that dispatches without validating its input
handleSubmitUnvalidated(mode, maxSubmits, rejectLabel, submitLabel) ==
    /\ submits < maxSubmits
    /\ submits' = submits + 1
    /\ isAnalyzing' = TRUE
    /\ error' = null
    /\ responseContent' = ""
    /\ inFlight' = Append(inFlight, [Closure EXCEPT !.selectedMode = mode])
    /\ last' = submitLabel
    /\ LoadingEffect
    /\ UNCHANGED << isListening, recognitionRef, recognitions, clientVars >>

\* handleSubmit up to its await, in a render whose selected mode is `mode`:
\* the validation, or the dispatch of analyzeContent(request)
handleSubmit(mode, maxSubmits, rejectLabel, submitLabel) ==
    /\ IF ~Truthy(selectedImage) /\ inputText = EmptyText
       THEN /\ error' = ErrValidation
            /\ last' = rejectLabel
            /\ UNCHANGED << isAnalyzing, responseContent, inFlight, submits,
                            isSpeaking, utterances, cancelled >>
       ELSE /\ submits < maxSubmits
            /\ submits' = submits + 1
            /\ isAnalyzing' = TRUE
            /\ error' = null
            /\ responseContent' = ""
            /\ inFlight' = Append(inFlight, [Closure EXCEPT !.selectedMode = mode])
            /\ last' = submitLabel
            /\ LoadingEffect
    /\ UNCHANGED << isListening, recognitionRef, recognitions, clientVars >>

\* the submit Button: disabled={disabled || loading}, loading={isAnalyzing}
SubmitButtonDisabled == isAnalyzing

SubmitButton(maxSubmits) ==
    /\ Mounted
    /\ ~SubmitButtonDisabled
    /\ handleSubmit(selectedMode, maxSubmits, "reject", "submit")
    /\ UNCHANGED << phase, selectedMode, inputText, selectedImage, imageMimeType,
                    history, historyIsArray, showHistory, storage, reading, now,
                    rejected, cleared >>

\* a click on a ModeCard: onSelect(mode.id), then, its <button> having no type
\* attribute inside the <form onSubmit={handleSubmit}> (a button in a form is a
\* submit button by default), the form's submit event, handled in the render
\* that follows the selection
ModeCardClick(m, maxSubmits) ==
    /\ Mounted
    /\ selectedMode' = m
    /\ handleSubmit(m, maxSubmits, "modeCardReject", "modeCardSubmit")
    /\ UNCHANGED << phase, inputText, selectedImage, imageMimeType, history,
                    historyIsArray, showHistory, storage, reading, now, rejected,
                    cleared >>

\* an addToHistory that keeps the in-memory history when the write fails
addToHistoryRollsBack(c, text, response, clock, writeOk) ==
    IF ~c.historyIsArray
    THEN [threw |-> TRUE, history |-> history, isArray |-> historyIsArray,
          storage |-> storage]
    ELSE [threw |-> FALSE,
          history |-> IF writeOk THEN UpdatedHistory(c, text, response, clock)
                      ELSE history,
          isArray |-> IF writeOk THEN TRUE ELSE historyIsArray,
          storage |-> IF writeOk
                      THEN Stored(UpdatedHistory(c, text, response, clock))
                      ELSE storage]

\* addToHistory(text, response) as the suspended call sees it: the new history
\* and record, or the TypeError of spreading a history that is no array
addToHistory(c, text, response, clock, writeOk) ==
    IF ~c.historyIsArray
    THEN [threw |-> TRUE, history |-> history, isArray |-> historyIsArray,
          storage |-> storage]
    ELSE [threw |-> FALSE,
          history |-> UpdatedHistory(c, text, response, clock),
          isArray |-> TRUE,
          storage |-> IF writeOk
                      THEN Stored(UpdatedHistory(c, text, response, clock))
                      ELSE storage]

\* a handleSubmit that never takes the error branch
ResultIsErrorMissed(result) == FALSE

\* whether handleSubmit takes the error branch for a result: if (result.error)

ResultIsError(result) == Truthy(result.error)

\* handleSubmit from its await on, for the i-th suspended call: the backend
\* answers, analyzeContent returns, and the result is stored
Complete(i, apiKey, outcome, clock, writeOk) ==
    LET c == inFlight[i]
        answer == analyzeContent(MakeRequest(c), apiKey, outcome)
        result == answer.value
        added == addToHistory(c, c.inputText, result.markdown, clock, writeOk)
    IN  /\ Mounted
        /\ inFlight' = Remove(inFlight, i)
        /\ IF answer.kind = "throw"
           THEN /\ rejected' = TRUE
                /\ last' = "completeThrew"
                /\ UNCHANGED << isAnalyzing, error, responseContent, history,
                                historyIsArray, storage, now >>
           ELSE /\ isAnalyzing' = FALSE
                /\ IF ResultIsError(result)
                   THEN /\ error' = result.error
                        /\ last' = "completeError"
                        /\ UNCHANGED << responseContent, history, historyIsArray,
                                        storage, now, rejected >>
                   ELSE /\ responseContent' = result.markdown
                        /\ history' = added.history
                        /\ historyIsArray' = added.isArray
                        /\ storage' = added.storage
                        /\ rejected' = (rejected \/ added.threw)
                        /\ now' = IF added.threw THEN now ELSE clock
                        /\ last' = IF added.threw THEN "completeAppendThrew"
                                   ELSE IF writeOk THEN "completeSaved"
                                   ELSE "completeUnsaved"
                        /\ UNCHANGED error
        /\ UNCHANGED << phase, selectedMode, inputText, selectedImage,
                        imageMimeType, showHistory, reading, submits, cleared >>
        /\ UNCHANGED << speechVars, clientVars >>

\* the header's history button, the drawer's close button and its backdrop
ToggleHistory ==
    /\ Mounted
    /\ showHistory' = ~showHistory
    /\ phase' = IF RenderThrows(~showHistory, historyIsArray) THEN "crashed" ELSE phase
    /\ last' = "other"
    /\ UNCHANGED << selectedMode, inputText, selectedImage, imageMimeType,
                    isAnalyzing, responseContent, error, history, historyIsArray,
                    storage, inFlight, reading, now, rejected, cleared, submits >>
    /\ UNCHANGED << speechVars, clientVars >>

\* a loadHistoryItem that clears the selected image for every item
ClearsImageAlways(item) == TRUE

\* whether loadHistoryItem clears the selected image: if (item.hasImage)

ClearsImage(item) == item.hasImage

\* a click on an entry of the drawer's list
loadHistoryItem(item) ==
    /\ Mounted
    /\ showHistory
    /\ selectedMode' = item.mode
    /\ inputText' = item.inputText
    /\ responseContent' = item.response
    /\ error' = null
    /\ showHistory' = FALSE
    /\ IF ClearsImage(item)
       THEN selectedImage' = null /\ imageMimeType' = null
       ELSE UNCHANGED << selectedImage, imageMimeType >>
    /\ last' = "loadHistoryItem"
    /\ UNCHANGED << phase, isAnalyzing, history, historyIsArray, storage,
                    inFlight, reading, now, rejected, cleared, submits >>
    /\ UNCHANGED << speechVars, clientVars >>

\* a clearHistory that returns at once when there is nothing in History
clearHistoryIfAny(confirmed) ==
    /\ Mounted
    /\ IF confirmed /\ history # << >>
       THEN /\ history' = << >> /\ historyIsArray' = TRUE /\ storage' = NoRecord
            /\ cleared' = cleared \cup Items(history)
       ELSE UNCHANGED << history, historyIsArray, storage, cleared >>
    /\ last' = IF ~confirmed THEN "other"
               ELSE IF history = << >> THEN "clearHistoryEmpty" ELSE "clearHistory"
    /\ UNCHANGED << phase, selectedMode, inputText, selectedImage, imageMimeType,
                    isAnalyzing, responseContent, error, showHistory, inFlight,
                    reading, now, rejected, submits >>
    /\ UNCHANGED << speechVars, clientVars >>

\* clearHistory; window.confirm answers `confirmed`
clearHistory(confirmed) ==
    /\ Mounted
    /\ IF confirmed
       THEN /\ history' = << >> /\ historyIsArray' = TRUE /\ storage' = NoRecord
            /\ cleared' = cleared \cup Items(history)
       ELSE UNCHANGED << history, historyIsArray, storage, cleared >>
    /\ last' = IF ~confirmed THEN "other"
               ELSE IF history = << >> THEN "clearHistoryEmpty" ELSE "clearHistory"
    /\ UNCHANGED << phase, selectedMode, inputText, selectedImage, imageMimeType,
                    isAnalyzing, responseContent, error, showHistory, inFlight,
                    reading, now, rejected, submits >>
    /\ UNCHANGED << speechVars, clientVars >>

\* the drawer's Clear All button, rendered only while history.length > 0
ClearAllButton(confirmed) ==
    /\ showHistory
    /\ historyIsArray
    /\ Len(history) > 0
    /\ clearHistory(confirmed)

\* whether the i-th suspended call, answered by sc, reaches addToHistory
Appends(i, sc) ==
    ~ResultIsError(analyzeContent(MakeRequest(inFlight[i]), sc.apiKey, sc.outcome).value)

\* Date.now() in addToHistory, counted from the first append of the session
\* (now = 0 before it): since the last append the clock has advanced, or it
\* still shows the same millisecond
ClockSteps == {0, 1}

\* a clock that has advanced at every append
ClockAdvances == {1}

Advances(i, sc, steps) ==
    IF ~Appends(i, sc) THEN {0} ELSE IF now = 0 THEN {1} ELSE steps

\* localStorage.setItem in addToHistory succeeds (TRUE) or throws (FALSE)
WriteSucceeds == {TRUE}
WriteSucceedsOrThrows == BOOLEAN

WriteOutcomes(i, sc, writes) == IF Appends(i, sc) THEN writes ELSE {TRUE}

\* the session: every handler of App but the voice input
Session(maxSubmits, steps, writes) ==
    \/ LoadHistory
    \/ \E t \in TypedTexts : SetInputText(t)
    \/ \E f \in {"text/plain", ImageMime} : handleFileChange(f)
    \/ ReaderLoadEnd(TRUE)
    \/ handleClearImage
    \/ SubmitButton(maxSubmits)
    \/ \E m \in ClickedModes : ModeCardClick(m, maxSubmits)
    \/ \E i \in 1..Len(inFlight), sc \in SessionCalls :
          \E adv \in Advances(i, sc, steps), w \in WriteOutcomes(i, sc, writes) :
              Complete(i, sc.apiKey, sc.outcome, now + adv, w)
    \/ ToggleHistory
    \/ \E i \in 1..Len(history) : loadHistoryItem(history[i])
    \/ \E b \in BOOLEAN : ClearAllButton(b)

\* the session of several calls: the clock may stand still between two
\* appends; the writes to localStorage succeed
Next == Session(MaxSubmits, ClockSteps, WriteSucceeds)

Spec == Init /\ [][Next]_vars

\* ------------------------------------------------------- voice dictation
\* A SpeechRecognition object is "starting" from start() until its start event,
\* then "listening"; stop() makes it "stopping"; an error event makes it
\* "failed"; its end event makes it "ended".
sessionVars ==
    << phase, selectedMode, selectedImage, imageMimeType, isAnalyzing,
       responseContent, history, historyIsArray, showHistory, storage, inFlight,
       reading, now, rejected, cleared, submits >>

\* recognition.stop() on the object the ref holds
Stopped(recs, ref) ==
    IF ref # 0 /\ recs[ref] \in {"starting", "listening"}
    THEN [recs EXCEPT ![ref] = "stopping"]
    ELSE recs

\* the voice button; `supported` says whether the browser has SpeechRecognition
toggleVoiceInput(supported) ==
    /\ Mounted
    /\ IF isListening
       THEN /\ recognitions' = Stopped(recognitions, recognitionRef)
            /\ isListening' = FALSE
            /\ UNCHANGED << recognitionRef, error >>
       ELSE IF ~supported
       THEN /\ error' = ErrVoiceUnsupported
            /\ UNCHANGED << recognitions, recognitionRef, isListening >>
       ELSE /\ Len(recognitions) < MaxRecognitions
            /\ recognitions' = Append(recognitions, "starting")
            /\ recognitionRef' = Len(recognitions) + 1
            /\ UNCHANGED << isListening, error >>
    /\ last' = "toggleVoiceInput"
    /\ UNCHANGED << sessionVars, inputText, isSpeaking, utterances, cancelled,
                    clientVars >>

\* recognition.onstart
RecognitionStart(r) ==
    /\ Mounted
    /\ recognitions[r] = "starting"
    /\ recognitions' = [recognitions EXCEPT ![r] = "listening"]
    /\ isListening' = TRUE
    /\ error' = null
    /\ last' = "recognitionStart"
    /\ UNCHANGED << sessionVars, inputText, recognitionRef, isSpeaking,
                    utterances, cancelled, clientVars >>

\* /\s$/.test(prev): the texts here hold no white space but " "
EndsWithSpace(text) == text # << >> /\ text[Len(text)] = " "

\* prev + spacer + newTranscript
Dictated(prev, newTranscript) ==
    prev \o (IF prev # << >> /\ ~EndsWithSpace(prev) THEN <<" ">> ELSE << >>)
         \o newTranscript

\* recognition.onresult with the final transcripts of the event joined
RecognitionResult(r, newTranscript) ==
    /\ Mounted
    /\ recognitions[r] \in {"listening", "stopping"}
    /\ Len(Dictated(inputText, newTranscript)) <= MaxTextLen
    /\ inputText' = IF newTranscript # << >>
                    THEN Dictated(inputText, newTranscript) ELSE inputText
    /\ last' = "recognitionResult"
    /\ UNCHANGED << sessionVars, error, isListening, recognitionRef, recognitions,
                    isSpeaking, utterances, cancelled, clientVars >>

\* recognition.onerror; the end event follows
RecognitionError(r, code) ==
    /\ Mounted
    /\ recognitions[r] \in {"starting", "listening", "stopping"}
    /\ recognitions' = [recognitions EXCEPT ![r] = "failed"]
    /\ isListening' = FALSE
    /\ error' = CASE code = "not-allowed" -> ErrMicDenied
                  [] code = "no-speech" -> error
                  [] OTHER -> ErrVoiceOther
    /\ last' = "recognitionError"
    /\ UNCHANGED << sessionVars, inputText, recognitionRef, isSpeaking,
                    utterances, cancelled, clientVars >>

\* recognition.onend
RecognitionEnd(r) ==
    /\ Mounted
    /\ recognitions[r] \in {"listening", "stopping", "failed"}
    /\ recognitions' = [recognitions EXCEPT ![r] = "ended"]
    /\ isListening' = FALSE
    /\ last' = "recognitionEnd"
    /\ UNCHANGED << sessionVars, inputText, error, recognitionRef, isSpeaking,
                    utterances, cancelled, clientVars >>

\* ------------------------------------------------------------- read-aloud
\* the Read button is rendered while !isLoading && content
ReadButtonShown == ~isAnalyzing /\ responseContent # ""

handleSpeak ==
    /\ Mounted
    /\ ReadButtonShown
    /\ IF isSpeaking
       THEN CancelSpeech /\ isSpeaking' = FALSE
       ELSE /\ Len(utterances) + cancelled < MaxUtterances
            /\ utterances' = Append(utterances, "pending")
            /\ isSpeaking' = TRUE
            /\ UNCHANGED cancelled
    /\ last' = "handleSpeak"
    /\ UNCHANGED << sessionVars, inputText, error, isListening, recognitionRef,
                    recognitions, clientVars >>

\* speechSynthesis speaks the utterance at the head of its queue
SynthesisSpeaks ==
    /\ utterances # << >>
    /\ Head(utterances) = "pending"
    /\ utterances' = <<"speaking">> \o Tail(utterances)
    /\ last' = "other"
    /\ UNCHANGED << sessionVars, inputText, error, isListening, recognitionRef,
                    recognitions, isSpeaking, cancelled, clientVars >>

\* utterance.onend and utterance.onerror of the utterance spoken
UtteranceEnd ==
    /\ Mounted
    /\ utterances # << >>
    /\ Head(utterances) = "speaking"
    /\ utterances' = Tail(utterances)
    /\ isSpeaking' = FALSE
    /\ last' = "utteranceEnd"
    /\ UNCHANGED << sessionVars, inputText, error, isListening, recognitionRef,
                    recognitions, cancelled, clientVars >>

\* utterance.onerror of an utterance that cancel() removed
CancelledUtteranceError ==
    /\ Mounted
    /\ cancelled > 0
    /\ cancelled' = cancelled - 1
    /\ isSpeaking' = FALSE
    /\ last' = "utteranceEnd"
    /\ UNCHANGED << sessionVars, inputText, error, isListening, recognitionRef,
                    recognitions, utterances, clientVars >>

\* the teardown of the view: the cleanup of App's effect calls stop() on the
\* recognition the ref holds, and the cleanup of OutputDisplay's effect calls
\* speechSynthesis.cancel(); no state setter runs
Unmount ==
    /\ Mounted
    /\ phase' = "unmounted"
    /\ recognitions' = Stopped(recognitions, recognitionRef)
    /\ CancelSpeech
    /\ last' = "unmount"
    /\ UNCHANGED << selectedMode, inputText, selectedImage, imageMimeType,
                    isAnalyzing, responseContent, error, history, historyIsArray,
                    showHistory, storage, inFlight, reading, now, rejected, cleared,
                    submits, isListening, recognitionRef, isSpeaking, clientVars >>

Transcripts == {<< >>, <<"b">>}

Speech ==
    \/ \E supported \in BOOLEAN : toggleVoiceInput(supported)
    \/ \E r \in 1..Len(recognitions) : RecognitionStart(r)
    \/ \E r \in 1..Len(recognitions), t \in Transcripts : RecognitionResult(r, t)
    \/ \E r \in 1..Len(recognitions), code \in {"not-allowed", "no-speech", "network"} :
          RecognitionError(r, code)
    \/ \E r \in 1..Len(recognitions) : RecognitionEnd(r)
    \/ handleSpeak
    \/ SynthesisSpeaks
    \/ UtteranceEnd
    \/ CancelledUtteranceError

\* the speech facilities, with the submissions that start and end an analysis
NextSpeech ==
    \/ Speech
    \/ LoadHistory
    \/ \E t \in TypedTexts : SetInputText(t)
    \/ SubmitButton(MaxSubmitsSingle)
    \/ \E i \in 1..Len(inFlight), sc \in SessionCalls :
          Complete(i, sc.apiKey, sc.outcome, now + 1, TRUE)
    \/ Unmount

InitSpeech == Init /\ storage = NoRecord

SpecSpeech == InitSpeech /\ [][NextSpeech]_vars

\* read-aloud, with the handlers that start an analysis, change the content
\* shown by the result view (a completion, a load from the history drawer)
\* and tear the view down
NextReadAloud ==
    \/ LoadHistory
    \/ \E t \in TypedTexts : SetInputText(t)
    \/ SubmitButton(MaxSubmitsSingle)
    \/ \E i \in 1..Len(inFlight), sc \in SessionCalls :
          Complete(i, sc.apiKey, sc.outcome, now + 1, TRUE)
    \/ ToggleHistory
    \/ \E i \in 1..Len(history) : loadHistoryItem(history[i])
    \/ handleSpeak
    \/ SynthesisSpeaks
    \/ UtteranceEnd
    \/ CancelledUtteranceError
    \/ Unmount

InitReadAloud == Init /\ storage = Stored(<<OldItem>>)

SpecReadAloud == InitReadAloud /\ [][NextReadAloud]_vars

\* the session in which the handlers' own effects are checked: at most
\* MaxSubmitsSingle submissions, a record that is absent or valid at startup,
\* a clock that advances between appends, and writes that succeed or throw
InitSingle == Init /\ storage \in {NoRecord, Stored(<<OldItem>>)}

NextSingle == Session(MaxSubmitsSingle, ClockAdvances, WriteSucceedsOrThrows)

SpecSingle == InitSingle /\ [][NextSingle]_vars

\* the session with clearHistory called in any of its states, also those in
\* which History is empty and the Clear All button is not rendered
NextClear ==
    \/ NextSingle
    \/ \E b \in BOOLEAN : clearHistory(b)

SpecClear == Init /\ [][NextClear]_vars

\* ------------------------------------------- analyzeContent, called on its own
Requests ==
    [text : TypedTexts, imageBase64 : {undefined, ImageData},
     imageMimeType : {undefined, ImageMime}, mode : AppMode]

InitAnalyze ==
    /\ InitSession
    /\ call \in [request : Requests, apiKey : ApiKeys, outcome : BackendOutcomes]
    /\ settled = NotSettled
    /\ rendering = NoRendering

Analyze ==
    /\ settled = NotSettled
    /\ settled' = analyzeContent(call.request, call.apiKey, call.outcome)
    /\ UNCHANGED << phase, selectedMode, inputText, selectedImage, imageMimeType,
                    isAnalyzing, responseContent, error, history, historyIsArray,
                    showHistory, storage, inFlight, reading, now, rejected, cleared,
                    submits, last, speechVars, call, rendering >>

SpecAnalyze == InitAnalyze /\ [][Analyze]_vars

\* ------------------------------------------- renderContent, called on its own
\* A text is a sequence of characters; NewLine is "\n".  The only white space
\* in the lines here is the blank.
NewLine == "\n"
RenderChars == {"#", "*", "-", " ", "a", NewLine}
IsSpace(c) == c = " "

\* the response text of the example: "## Title\n\n* Point one\n* Point two"
ExampleText ==
    << "#", "#", " ", "T", "i", "t", "l", "e", NewLine, NewLine,
       "*", " ", "P", "o", "i", "n", "t", " ", "o", "n", "e", NewLine,
       "*", " ", "P", "o", "i", "n", "t", " ", "t", "w", "o" >>

\* a line with two bold delimiters: "a**a**a"
BoldText == << "a", "*", "*", "a", "*", "*", "a" >>

RenderTexts ==
    UNION {[1..n -> RenderChars] : n \in 0..MaxRenderLen} \cup {ExampleText, BoldText}

Drop(s, n) == SubSeq(s, n + 1, Len(s))

\* s.startsWith(pat)
StartsWith(s, pat) == Len(s) >= Len(pat) /\ SubSeq(s, 1, Len(pat)) = pat

\* s.indexOf(pat), counted from 1; 0 when pat does not occur
IndexOf(s, pat) ==
    LET at == {i \in 1..(Len(s) - Len(pat) + 1) : SubSeq(s, i, i + Len(pat) - 1) = pat}
    IN  IF at = {} THEN 0 ELSE CHOOSE i \in at : \A j \in at : i <= j

\* s.includes(pat)
Includes(s, pat) == IndexOf(s, pat) # 0

\* s.split(sep)
RECURSIVE Split(_, _)
Split(s, sep) ==
    IF ~Includes(s, sep) THEN <<s>>
    ELSE <<SubSeq(s, 1, IndexOf(s, sep) - 1)>>
         \o Split(Drop(s, IndexOf(s, sep) + Len(sep) - 1), sep)

\* s.replace(pat, ''): the first occurrence of the string pat is removed
ReplaceFirst(s, pat) ==
    IF ~Includes(s, pat) THEN s
    ELSE SubSeq(s, 1, IndexOf(s, pat) - 1) \o Drop(s, IndexOf(s, pat) + Len(pat) - 1)

RECURSIVE TrimStart(_)
TrimStart(s) == IF s # << >> /\ IsSpace(Head(s)) THEN TrimStart(Tail(s)) ELSE s

RECURSIVE TrimEnd(_)
TrimEnd(s) ==
    IF s # << >> /\ IsSpace(s[Len(s)]) THEN TrimEnd(SubSeq(s, 1, Len(s) - 1)) ELSE s

\* s.trim()
Trim(s) == TrimEnd(TrimStart(s))

\* line.replace(/^[\*\-]\s+/, ''): a marker at the very start of the line, with
\* the white space after it, is removed
StripMarker(line) ==
    IF Len(line) >= 2 /\ line[1] \in {"*", "-"} /\ IsSpace(line[2])
    THEN TrimStart(Tail(line))
    ELSE line

Plain(s) == [bold |-> FALSE, text |-> s]
Element(tag, runs) == [tag |-> tag, runs |-> runs]

\* parts.map((part, i) => i % 2 === 1 ? <strong>{part}</strong> : part), the
\* index i counted from 0
BoldRuns(parts) ==
    [k \in 1..Len(parts) |-> [bold |-> ((k - 1) % 2 = 1), text |-> parts[k]]]

\* the element renderContent returns for one line
RenderLine(line) ==
    IF StartsWith(line, <<"#", "#", " ">>)
    THEN Element("h3", <<Plain(ReplaceFirst(line, <<"#", "#", " ">>))>>)
    ELSE IF StartsWith(line, <<"#", " ">>)
    THEN Element("h2", <<Plain(ReplaceFirst(line, <<"#", " ">>))>>)
    ELSE IF StartsWith(Trim(line), <<"*", " ">>) \/ StartsWith(Trim(line), <<"-", " ">>)
    THEN Element("li", <<Plain(StripMarker(line))>>)
    ELSE IF Includes(line, <<"*", "*">>)
    THEN Element("p", BoldRuns(Split(line, <<"*", "*">>)))
    ELSE IF Trim(line) = << >>
    THEN Element("div", << >>)
    ELSE Element("p", <<Plain(line)>>)

renderContent(text) ==
    [k \in 1..Len(Split(text, <<NewLine>>)) |-> RenderLine(Split(text, <<NewLine>>)[k])]

InitRender ==
    /\ InitSession
    /\ call = NoCall
    /\ settled = NotSettled
    /\ storage = NoRecord
    /\ rendering \in {[text |-> t, done |-> FALSE, elements |-> << >>] : t \in RenderTexts}

Render ==
    /\ ~rendering.done
    /\ rendering' = [rendering EXCEPT !.done = TRUE,
                                      !.elements = renderContent(rendering.text)]
    /\ UNCHANGED << phase, selectedMode, inputText, selectedImage, imageMimeType,
                    isAnalyzing, responseContent, error, history, historyIsArray,
                    showHistory, storage, inFlight, reading, now, rejected, cleared,
                    submits, last, speechVars, call, settled >>

SpecRender == InitRender /\ [][Render]_vars

\* ------------------------------------------------------------------ claims
SubmitLabels == {"submit", "modeCardSubmit"}
RejectLabels == {"reject", "modeCardReject"}
SuccessLabels == {"completeSaved", "completeUnsaved"}

\* the steps that complete the i-th suspended call with the call sc
CompleteWith(i, sc, adv, w) == Complete(i, sc.apiKey, sc.outcome, now + adv, w)

ResultOf(i, sc) == analyzeContent(MakeRequest(inFlight[i]), sc.apiKey, sc.outcome).value

\* C1: a successful completion leaves History equal to the new item followed by
\* the History of the state right before the completion
C1_StablePrepend ==
    [][last' \in SuccessLabels =>
        /\ Len(history') = Len(history) + 1
        /\ Tail(history') = history]_vars

\* C2: at most one analysis request is in flight
C2_AtMostOneInFlight == Len(inFlight) <= 1

\* C3: a submit attempted with empty text and no image dispatches no call, does
\* not set the busy flag (an idle controller stays idle), sets the validation
\* error and leaves History and the persisted record unchanged
C3_EmptySubmitRejected ==
    [][(last' \in SubmitLabels \cup RejectLabels
          /\ inputText = EmptyText /\ ~Truthy(selectedImage)) =>
        /\ inFlight' = inFlight
        /\ submits' = submits
        /\ isAnalyzing' = isAnalyzing
        /\ (inFlight = << >> => ~isAnalyzing')
        /\ error' = ErrValidation
        /\ history' = history
        /\ historyIsArray' = historyIsArray
        /\ storage' = storage]_vars

C3_Witness ==
    /\ last \in RejectLabels
    /\ error = ErrValidation
    /\ ~isAnalyzing
    /\ Len(history) > 0
    /\ storage = Stored(history)

\* what every load of an item restores
Restores(item) ==
    /\ selectedMode' = item.mode
    /\ inputText' = item.inputText
    /\ responseContent' = item.response

\* the two forms of a response
IsSuccess(r) == r.markdown # "" /\ r.error = undefined
IsFailure(r) == r.markdown = "" /\ Truthy(r.error)

\* C4: for every request and backend outcome analyzeContent returns (it does
\* not throw) a response that is a success with non-empty markdown and no
\* error, or a failure with empty markdown and a non-empty error; an empty
\* returned text gives the failure
C4_ResponseShape ==
    settled # NotSettled =>
        /\ settled.kind = "return"
        /\ IsSuccess(settled.value) \/ IsFailure(settled.value)
        /\ (Truthy(call.apiKey) /\ call.outcome.kind = "returns"
              /\ call.outcome.text = "") => IsFailure(settled.value)

C4_Witness ==
    /\ settled # NotSettled
    /\ Truthy(call.apiKey)
    /\ call.outcome.kind = "returns"
    /\ call.outcome.text = ""
    /\ settled.value = [markdown |-> "", error |-> ErrNoResponse]

\* C5 as stated: a load restores mode, text and response and leaves no image
\* selected, whatever the item's has-image flag
C5_LoadAlwaysClearsImage ==
    [][\A i \in 1..Len(history) :
        loadHistoryItem(history[i]) =>
            /\ Restores(history[i])
            /\ selectedImage' = null
            /\ imageMimeType' = null]_vars

\* C5 amended: a load restores mode, text and response; the selected image and
\* its MIME type are cleared when the item's has-image flag is set and are
\* left as they were when it is not
C5_LoadClearsImageOfImageItems ==
    [][\A i \in 1..Len(history) :
        loadHistoryItem(history[i]) =>
            /\ Restores(history[i])
            /\ IF history[i].hasImage
               THEN selectedImage' = null /\ imageMimeType' = null
               ELSE selectedImage' = selectedImage /\ imageMimeType' = imageMimeType]_vars

\* an item without image was loaded while an image was selected
C5_Witness ==
    /\ last = "loadHistoryItem"
    /\ Truthy(selectedImage)
    /\ \A i \in 1..Len(history) : ~history[i].hasImage
    /\ \E i \in 1..Len(history) :
          /\ history[i].response = responseContent
          /\ history[i].inputText = inputText
          /\ history[i].mode = selectedMode

\* C6: between clears, an item of History stays in History unchanged
C6_AppendOnly ==
    [][last' # "clearHistory" =>
        \A i \in 1..Len(history) : \E j \in 1..Len(history') :
            history'[j] = history[i]]_vars

\* C7: a completion whose response has an error stores the error, creates no
\* HistoryItem and leaves History and the persisted record as they were
C7_ErrorCompletion ==
    [][Len(inFlight') < Len(inFlight) =>
       \A i \in 1..Len(inFlight), sc \in SessionCalls, adv \in 0..1, w \in BOOLEAN :
        (/\ Truthy(ResultOf(i, sc).error)
         /\ CompleteWith(i, sc, adv, w)) =>
            /\ error' = ResultOf(i, sc).error
            /\ history' = history
            /\ historyIsArray' = historyIsArray
            /\ storage' = storage]_vars

C7_Witness ==
    /\ last = "completeError"
    /\ error = "fetch failed"
    /\ Len(history) > 0
    /\ storage = Stored(history)

\* C8: after the load at startup History is usable for every content of the
\* record (the stored items, or the empty sequence), and neither the drawer's
\* list nor an append fails
C8_LoadedHistoryUsable ==
    /\ phase # "init" => historyIsArray
    /\ last = "loadHistory" =>
          history = (IF storage.kind = "array" THEN storage.items ELSE << >>)
    /\ phase # "crashed"
    /\ ~rejected

\* C9: when the write fails in the append after a successful analysis, History
\* has the new item at its front, the result is displayed and the error slot
\* is as it was
C9_WriteFailureKeepsAppend ==
    [][Len(inFlight') < Len(inFlight) =>
       \A i \in 1..Len(inFlight), sc \in SessionCalls, adv \in 0..1 :
        (/\ ~Truthy(ResultOf(i, sc).error)
         /\ inFlight[i].historyIsArray
         /\ CompleteWith(i, sc, adv, FALSE)) =>
            /\ Len(history') >= 1
            /\ Head(history') = NewItem(inFlight[i], inFlight[i].inputText,
                                        ResultOf(i, sc).markdown, now + adv)
            /\ responseContent' = ResultOf(i, sc).markdown
            /\ error' = error
            /\ storage' = storage]_vars

C9_Witness ==
    /\ last = "completeUnsaved"
    /\ Len(history) >= 1
    /\ Head(history).response = responseContent
    /\ storage.items # history
    /\ error = null

ActiveRecognitions == {r \in 1..Len(recognitions) : recognitions[r] # "ended"}
SpokenUtterances == {u \in 1..Len(utterances) : utterances[u] = "speaking"}

\* C10: at most one recognition session started by the controller is active
\* and at most one utterance is being spoken
C10_AtMostOneOfEach ==
    /\ Cardinality(ActiveRecognitions) <= 1
    /\ Cardinality(SpokenUtterances) <= 1

\* C11: when the view is torn down, no recognition session it started is left
\* running (each one still active has had stop() called) and no utterance is
\* left in the synthesis queue
C11_TeardownReleasesSpeech ==
    phase = "unmounted" =>
        /\ \A r \in 1..Len(recognitions) :
              recognitions[r] \notin {"starting", "listening"}
        /\ utterances = << >>

\* C12: read-aloud is stopped (the queue emptied, the speaking flag reset)
\* when a new analysis starts, when the response content shown changes and
\* when the result view unmounts (its flag goes with it)
C12_ReadAloudStopped ==
    [][(\/ last' \in SubmitLabels
        \/ responseContent' # responseContent
        \/ last' = "unmount") =>
            /\ utterances' = << >>
            /\ last' # "unmount" => ~isSpeaking']_vars

ClearLabels == {"clearHistory", "clearHistoryEmpty"}

\* every variable but `last` and the three clearHistory writes
aroundHistory ==
    << phase, selectedMode, inputText, selectedImage, imageMimeType, isAnalyzing,
       responseContent, error, showHistory, inFlight, reading, now, rejected, cleared,
       submits, speechVars, clientVars >>

\* C13: a confirmed clear leaves History empty and the persisted record
\* removed, from any state, also one with an empty History; it leaves the
\* error slot as it was; and a clear right after a clear changes nothing
C13_ClearIdempotent ==
    [][last' \in ClearLabels =>
        /\ history' = << >>
        /\ historyIsArray'
        /\ storage' = NoRecord
        /\ error' = error
        /\ last \in ClearLabels =>
              /\ history' = history
              /\ historyIsArray' = historyIsArray
              /\ storage' = storage
              /\ aroundHistory' = aroundHistory]_vars

\* History was empty when it was cleared
C13_Witness ==
    /\ last = "clearHistoryEmpty"
    /\ history = << >>
    /\ storage = NoRecord

\* the text of a bullet line as the claim has it: the line without its marker,
\* up to the white space around it
WithoutMarker(line) == Trim(Drop(Trim(line), 2))

\* the element the claim gives a line, by the first rule that matches
ClaimedLine(line) ==
    IF StartsWith(line, <<"#", "#", " ">>) THEN Element("h3", <<Plain(Drop(line, 3))>>)
    ELSE IF StartsWith(line, <<"#", " ">>) THEN Element("h2", <<Plain(Drop(line, 2))>>)
    ELSE IF StartsWith(Trim(line), <<"*", " ">>) \/ StartsWith(Trim(line), <<"-", " ">>)
    THEN Element("li", <<Plain(WithoutMarker(line))>>)
    ELSE IF Includes(line, <<"*", "*">>)
    THEN Element("p", [k \in 1..Len(Split(line, <<"*", "*">>)) |->
                          [bold |-> (k % 2 = 0), text |-> Split(line, <<"*", "*">>)[k]]])
    ELSE IF Trim(line) = << >> THEN Element("div", << >>)
    ELSE Element("p", <<Plain(line)>>)

\* an element is the claimed one; the text of a bullet is compared up to the
\* white space around it
AsClaimed(element, line) ==
    IF ClaimedLine(line).tag = "li"
    THEN /\ element.tag = "li"
         /\ Len(element.runs) = 1
         /\ ~element.runs[1].bold
         /\ Trim(element.runs[1].text) = WithoutMarker(line)
    ELSE element = ClaimedLine(line)

ExampleElements ==
    << Element("h3", <<Plain(<<"T", "i", "t", "l", "e">>)>>),
       Element("div", << >>),
       Element("li", <<Plain(<<"P", "o", "i", "n", "t", " ", "o", "n", "e">>)>>),
       Element("li", <<Plain(<<"P", "o", "i", "n", "t", " ", "t", "w", "o">>)>>) >>

\* C14: renderContent yields one element per line, in line order, each the
\* element of the first rule that matches its line (sub-heading, heading,
\* bullet without its marker, paragraph with the odd runs bold, spacer, plain
\* paragraph); the example text yields sub-heading, spacer and two bullets
C14_RenderClassifies ==
    rendering.done =>
        /\ Len(rendering.elements) = Len(Split(rendering.text, <<NewLine>>))
        /\ \A k \in 1..Len(rendering.elements) :
              AsClaimed(rendering.elements[k], Split(rendering.text, <<NewLine>>)[k])
        /\ rendering.text = ExampleText => rendering.elements = ExampleElements

\* C15: the busy flag is set exactly while an analysis call is in flight
C15_BusyWhileInFlight == isAnalyzing <=> (Len(inFlight) > 0)

\* C16: any two distinct items of History have different ids
C16_UniqueIds ==
    \A i, j \in 1..Len(history) : i # j => history[i].id # history[j].id

ModeCardLabels == {"modeCardSubmit", "modeCardReject"}

\* C18: a click on a mode card changes the selected mode only: it dispatches
\* no call, does not set the busy flag, and leaves the error slot, the result
\* shown, the input text, the selected image and History as they were
C18_ModeSelectionOnly ==
    [][last' \in ModeCardLabels =>
        /\ inFlight' = inFlight
        /\ submits' = submits
        /\ isAnalyzing' = isAnalyzing
        /\ error' = error
        /\ responseContent' = responseContent
        /\ inputText' = inputText
        /\ selectedImage' = selectedImage
        /\ history' = history]_vars

\* C19: the item created by a successful completion has the mode, the text
\* and the has-image flag of the request dispatched for it, whatever the
\* mode, text and image selected at the time of the completion
C19_ItemOfRequest ==
    [][Len(inFlight') < Len(inFlight) =>
       \A i \in 1..Len(inFlight), sc \in SessionCalls, adv \in 0..1, w \in BOOLEAN :
        (/\ ~Truthy(ResultOf(i, sc).error)
         /\ inFlight[i].historyIsArray
         /\ CompleteWith(i, sc, adv, w)) =>
            /\ Len(history') >= 1
            /\ Head(history').mode = MakeRequest(inFlight[i]).mode
            /\ Head(history').inputText = MakeRequest(inFlight[i]).text
            /\ Head(history').hasImage =
                  (MakeRequest(inFlight[i]).imageBase64 # undefined)]_vars

\* an item was created after the mode, the text and the image had all been
\* changed while its call was in flight
C19_Witness ==
    /\ last \in SuccessLabels
    /\ Len(history) >= 1
    /\ Head(history).mode # selectedMode
    /\ Head(history).inputText # inputText
    /\ Head(history).hasImage # Truthy(selectedImage)

\* C17: an item that a confirmed clear has removed is neither in History nor
\* in the persisted record afterwards
C17_ClearedStayCleared ==
    /\ Items(history) \cap cleared = {}
    /\ Items(storage.items) \cap cleared = {}

====
